---- MODULE Spec2Model ----
(***************************************************************************)
(* Model of parse_access_logs.py: one run of main() that determines the   *)
(* date window, loads the domain registry, and for every selected domain  *)
(* reads two live logs and two current-month archives into an             *)
(* hour -> ip -> count table that is merged into all_stats.               *)
(***************************************************************************)
EXTENDS Integers, Sequences, FiniteSets, TLC

VARIABLES
    args_domain,     \* args.domain: None or a text
    args_daterange,  \* args.daterange: None or a text
    now,             \* the value datetime.now() returns during the run
    registry,        \* content of USER_DOMAIN_FILE: its sequence of lines
    pc,              \* position of main()
    start_date,      \* main's start_date
    end_date,        \* main's end_date
    domains,         \* the dict parse_domain_list returned, in insertion order
    di,              \* number of items of domains.items() already taken by the loop
    domain,          \* loop variable of main
    user,            \* loop variable of main
    disk,            \* the files under the current user's log directory: path -> items
    si,              \* number of log_paths / archive_patterns already iterated
    domain_stats,    \* table built by process_logs
    archived_stats,  \* table built by process_archived_logs
    all_stats        \* main's all_stats

vars == <<args_domain, args_daterange, now, registry, pc, start_date, end_date,
          domains, di, domain, user, disk, si, domain_stats, archived_stats, all_stats>>

\* Python's None, and the empty text
None == <<>>

(***************************************************************************)
(* Bounds of the model.                                                    *)
(***************************************************************************)
\* lines held by the four candidate sources of one domain, all together
MaxLines == 2
\* the same, where the lines are drawn from the larger sets WindowItems
MaxWindowLines == 1
\* lines of the registry file
MaxRegistryLines == 2
\* '-'-separated parts of a --daterange text
MaxDateParts == 2

(***************************************************************************)
(* Calendar: datetime values are <<year, month, day, hour, minute, second>>*)
(***************************************************************************)
MonthNames == <<"Jan", "Feb", "Mar", "Apr", "May", "Jun",
                "Jul", "Aug", "Sep", "Oct", "Nov", "Dec">>

IsLeap(y) == (y % 4 = 0 /\ y % 100 # 0) \/ y % 400 = 0

DaysInMonth(y, m) ==
    IF m = 2 THEN (IF IsLeap(y) THEN 29 ELSE 28)
    ELSE IF m \in {4, 6, 9, 11} THEN 30 ELSE 31

\* datetime.date(): the calendar date of a datetime
DateOf(dt) == <<dt[1], dt[2], dt[3]>>

\* date <= date
DateLeq(a, b) ==
    \/ a[1] < b[1]
    \/ a[1] = b[1] /\ a[2] < b[2]
    \/ a[1] = b[1] /\ a[2] = b[2] /\ a[3] <= b[3]

\* datetime <= datetime
DateTimeLeq(a, b) ==
    \/ a = b
    \/ \E i \in 1..6 : a[i] < b[i] /\ \A j \in 1..(i - 1) : a[j] = b[j]

\* dt - timedelta(days=1)
MinusOneDay(dt) ==
    IF dt[3] > 1 THEN [dt EXCEPT ![3] = dt[3] - 1]
    ELSE IF dt[2] > 1 THEN [dt EXCEPT ![2] = dt[2] - 1, ![3] = DaysInMonth(dt[1], dt[2] - 1)]
    ELSE [dt EXCEPT ![1] = dt[1] - 1, ![2] = 12, ![3] = 31]

\* whether datetime.strptime(text, '%d/%m/%Y') returns (it raises ValueError
\* otherwise); text is the sequence of its '/'-separated numeric fields
StrptimeDateOk(text) ==
    /\ Len(text) = 3
    /\ text[2] \in 1..12
    /\ text[3] \in 1..9999
    /\ text[1] \in 1..DaysInMonth(text[3], text[2])

\* the datetime it returns
StrptimeDate(text) == <<text[3], text[2], text[1], 0, 0, 0>>

\* %b: the number of the month a name abbreviates, 0 when it is no month name
MonthNumber(name) ==
    IF \E m \in 1..12 : MonthNames[m] = name
    THEN CHOOSE m \in 1..12 : MonthNames[m] = name
    ELSE 0

\* whether datetime.strptime(text, '%d/%b/%Y:%H:%M:%S') returns (it raises
\* ValueError otherwise); text is the sequence of its fields, separated by '/'
\* and ':'
StrptimeLogOk(text) ==
    /\ Len(text) = 6
    /\ MonthNumber(text[2]) # 0
    /\ text[3] \in 1..9999
    /\ text[1] \in 1..DaysInMonth(text[3], MonthNumber(text[2]))
    /\ text[4] \in 0..23
    /\ text[5] \in 0..59
    /\ text[6] \in 0..61

\* the datetime it returns
StrptimeLog(text) ==
    <<text[3], MonthNumber(text[2]), text[1], text[4], text[5], text[6]>>

\* log_time.strftime('%Y-%m-%d %H:00')
HourBucket(dt) == <<dt[1], dt[2], dt[3], dt[4]>>

\* datetime.now().strftime('%b-%Y')
CurrentMonth(dt) == <<MonthNames[dt[2]], dt[1]>>

(***************************************************************************)
(* determine_date_range. A daterange text is the sequence of its           *)
(* '-'-separated parts, each part a date text.                             *)
(***************************************************************************)
EmptyText == << <<>> >>

\* Python truthiness of an optional text
Truthy(x) == x # None /\ x # EmptyText

\* what determine_date_range does: exit(1) is taken, or the pair is returned
determine_date_range(daterange, t) ==
    IF Truthy(daterange)
    THEN IF /\ Len(daterange) = 2
            /\ StrptimeDateOk(daterange[1])
            /\ StrptimeDateOk(daterange[2])
         THEN [exit |-> FALSE, start_date |-> StrptimeDate(daterange[1]),
               end_date |-> StrptimeDate(daterange[2])]
         ELSE [exit |-> TRUE, start_date |-> None, end_date |-> None]
    ELSE [exit |-> FALSE, start_date |-> MinusOneDay(t), end_date |-> t]

(***************************************************************************)
(* parse_domain_list. A registry line is a sequence of characters.         *)
(***************************************************************************)
IsSpace(c) == c \in {" ", "\n", "\t"}

RECURSIVE LStrip(_)
LStrip(s) == IF s # <<>> /\ IsSpace(Head(s)) THEN LStrip(Tail(s)) ELSE s

RECURSIVE RStrip(_)
RStrip(s) ==
    IF s # <<>> /\ IsSpace(s[Len(s)]) THEN RStrip(SubSeq(s, 1, Len(s) - 1)) ELSE s

\* str.strip()
Strip(s) == RStrip(LStrip(s))

\* index of the first place where sep occurs in s, 0 when it does not
Find(s, sep) ==
    LET hits == {i \in 1..(Len(s) - Len(sep) + 1) : SubSeq(s, i, i + Len(sep) - 1) = sep}
    IN IF hits = {} THEN 0 ELSE CHOOSE i \in hits : \A j \in hits : i <= j

\* str.split(sep)
RECURSIVE Split(_, _)
Split(s, sep) ==
    LET i == Find(s, sep)
    IN IF i = 0 THEN <<s>>
       ELSE <<SubSeq(s, 1, i - 1)>> \o Split(SubSeq(s, i + Len(sep), Len(s)), sep)

\* a dict as the sequence of its <<key, value>> items in insertion order
DictKeys(d) == {d[i][1] : i \in 1..Len(d)}

\* d[k] = v
DictSet(d, k, v) ==
    IF k \in DictKeys(d)
    THEN [i \in 1..Len(d) |-> IF d[i][1] = k THEN <<k, v>> ELSE d[i]]
    ELSE Append(d, <<k, v>>)

\* the loop of parse_domain_list from line i on, acc being the dict so far;
\* raised when the unpacking of parts[0].split(":") raises ValueError
RECURSIVE ParseLines(_, _, _)
ParseLines(file, i, acc) ==
    IF i > Len(file) THEN [raised |-> FALSE, domains |-> acc]
    ELSE LET parts == Split(Strip(file[i]), <<"=", "=">>)
             pair == Split(parts[1], <<":">>)
         IN IF Len(parts) >= 2
            THEN IF Len(pair) # 2 THEN [raised |-> TRUE, domains |-> acc]
                 ELSE ParseLines(file, i + 1, DictSet(acc, Strip(pair[1]), Strip(pair[2])))
            ELSE ParseLines(file, i + 1, acc)

\* the dict parse_domain_list returns, or the exception that leaves it
parse_domain_list(file) == ParseLines(file, 1, <<>>)

(***************************************************************************)
(* Tables: a defaultdict is a function whose domain is the keys present.   *)
(***************************************************************************)
EmptyMap == [x \in {} |-> 0]

Put(f, k, v) == [x \in DOMAIN f \cup {k} |-> IF x = k THEN v ELSE f[x]]

\* the count an hour -> ip -> count table gives, 0 for an absent key
Count(stats, hour, ip) ==
    IF hour \in DOMAIN stats /\ ip \in DOMAIN stats[hour] THEN stats[hour][ip] ELSE 0

\* the <<hour, ip>> keys present in a table
Keys(stats) == UNION {{<<h, ip>> : ip \in DOMAIN stats[h]} : h \in DOMAIN stats}

\* stats[hour][ip] += n on a defaultdict(lambda: defaultdict(int))
Incr(stats, hour, ip, n) ==
    LET inner == IF hour \in DOMAIN stats THEN stats[hour] ELSE EmptyMap
        old == IF ip \in DOMAIN inner THEN inner[ip] ELSE 0
    IN Put(stats, hour, Put(inner, ip, old + n))

\* for hour, ip_data in src.items(): for ip, count in ip_data.items():
\*     dst[hour][ip] += count
RECURSIVE AddItems(_, _, _)
AddItems(dst, src, todo) ==
    IF todo = {} THEN dst
    ELSE LET k == CHOOSE x \in todo : TRUE
         IN AddItems(Incr(dst, k[1], k[2], src[k[1]][k[2]]), src, todo \ {k})

MergeInto(dst, src) == AddItems(dst, src, Keys(src))

(***************************************************************************)
(* Log lines. A line is a record: ip is the first token; grammar says      *)
(* whether the line has the shape of LOG_FORMAT (brackets and quotes       *)
(* closed, three status digits); time is the bracketed text as the         *)
(* sequence of its whitespace-separated words, the first word being the    *)
(* sequence of its fields separated by '/' and ':'. An item of a file is a *)
(* line, or the place where reading the file raises (io_error).            *)
(***************************************************************************)
\* re.match(LOG_FORMAT, line) is not None
ReMatch(line) == line.grammar

\* whether the body of the loop raises on a matched line: split()[0] on a blank
\* text (IndexError) or strptime (ValueError)
LineRaises(line) ==
    ReMatch(line) /\ (line.time = <<>> \/ ~StrptimeLogOk(line.time[1]))

\* InWindow comparing the datetimes themselves: start_date <= log_time <= end_date
InWindow_datetimes(log_time, s, e) ==
    DateTimeLeq(s, log_time) /\ DateTimeLeq(log_time, e)

\* start_date.date() <= log_date <= end_date.date()
InWindow(log_time, s, e) ==
    DateLeq(DateOf(s), DateOf(log_time)) /\ DateLeq(DateOf(log_time), DateOf(e))

\* the body of the loop on a line on which it does not raise
LineStep(line, stats, s, e) ==
    IF ReMatch(line)
    THEN LET log_time == StrptimeLog(line.time[1])
         IN IF InWindow(log_time, s, e)
            THEN Incr(stats, HourBucket(log_time), line.ip, 1)
            ELSE stats
    ELSE stats

\* the with-block: the loop over the items of a file from item i on; error says
\* whether an exception left it, stats is the table at that point
RECURSIVE ReadLines(_, _, _, _, _)
ReadLines(items, i, stats, s, e) ==
    IF i > Len(items) THEN [stats |-> stats, error |-> FALSE]
    ELSE IF items[i].io_error \/ LineRaises(items[i])
         THEN [stats |-> stats, error |-> TRUE]
         ELSE ReadLines(items, i + 1, LineStep(items[i], stats, s, e), s, e)

\* process_log_file without its except clause: the exception leaves the function
process_log_file_reraise(items, stats, s, e) ==
    [stats |-> ReadLines(items, 1, stats, s, e).stats,
     raised |-> ReadLines(items, 1, stats, s, e).error]

\* process_log_file on an existing file: the table it leaves in domain_stats, and
\* whether an exception leaves the function (except Exception lets none out)
process_log_file(items, stats, s, e) ==
    [stats |-> ReadLines(items, 1, stats, s, e).stats, raised |-> FALSE]

\* the try statement undoing the increments of an archive it fails to read
process_archive_file_rollback(items, stats, s, e) ==
    [stats |-> IF ReadLines(items, 1, stats, s, e).error THEN stats
               ELSE ReadLines(items, 1, stats, s, e).stats,
     raised |-> FALSE]

\* the try statement of process_archived_logs on an existing archive
process_archive_file(items, stats, s, e) ==
    [stats |-> ReadLines(items, 1, stats, s, e).stats, raised |-> FALSE]

(***************************************************************************)
(* Paths.                                                                  *)
(***************************************************************************)
\* LOG_DIRECTORY.format(user=user)
LOG_DIRECTORY(u) == <<"/home/", u, "/logs/">>

\* log_paths of main
log_paths(d, u) ==
    << LOG_DIRECTORY(u) \o <<d>>,
       LOG_DIRECTORY(u) \o <<d, "-ssl_log">> >>

\* the archive_path values of process_archived_logs, in the order of
\* archive_patterns
archive_paths(d, u, t) ==
    << LOG_DIRECTORY(u) \o <<d, "-ssl_log-">> \o CurrentMonth(t) \o <<".gz">>,
       LOG_DIRECTORY(u) \o <<d, "-">> \o CurrentMonth(t) \o <<".gz">> >>

\* os.path.isfile(path)
isfile(fs, path) == path \in DOMAIN fs

\* the first merge loop assigning instead of adding: domain_stats[hour][ip] = count
merge_archived_overwrite(dstats, astats) ==
    [h \in DOMAIN dstats \cup DOMAIN astats |->
        [ip \in (IF h \in DOMAIN dstats THEN DOMAIN dstats[h] ELSE {})
                \cup (IF h \in DOMAIN astats THEN DOMAIN astats[h] ELSE {}) |->
            IF Count(astats, h, ip) > 0 THEN Count(astats, h, ip) ELSE Count(dstats, h, ip)]]

\* the merge loops of main: archived_stats into domain_stats
merge_archived(dstats, astats) == MergeInto(dstats, astats)

\* the second merge loop touching all_stats[domain] before it iterates
merge_all_always(all, d, dstats) ==
    Put(all, d, MergeInto(IF d \in DOMAIN all THEN all[d] ELSE EmptyMap, dstats))

\* the merge loops of main: domain_stats into all_stats[domain]
merge_all(all, d, dstats) ==
    IF Keys(dstats) = {} THEN all
    ELSE Put(all, d, MergeInto(IF d \in DOMAIN all THEN all[d] ELSE EmptyMap, dstats))

(***************************************************************************)
(* Inputs of a run.                                                        *)
(***************************************************************************)
SeqsUpTo(S, n) == UNION {[1..k -> S] : k \in 0..n}

Line(ip, fields) ==
    [ip |-> ip, grammar |-> TRUE, time |-> <<fields, <<"+0000">>>>, io_error |-> FALSE]

\* 15/Mar/2024:09:47:33
LineV == Line("10.0.0.1", <<15, "Mar", 2024, 9, 47, 33>>)
\* the same hour from another address
LineV2 == Line("10.0.0.2", <<15, "Mar", 2024, 9, 5, 0>>)
LineEnd == Line("10.0.0.2", <<16, "Mar", 2024, 23, 10, 0>>)
LineBefore == Line("10.0.0.1", <<14, "Mar", 2024, 23, 59, 59>>)
LineAfter == Line("10.0.0.1", <<17, "Mar", 2024, 0, 0, 0>>)
LineFeb == Line("10.0.0.1", <<29, "Feb", 2024, 12, 0, 0>>)
\* no such month name
LineBadTime == Line("10.0.0.1", <<15, "Foo", 2024, 9, 47, 33>>)
\* 24:00:00
LineBadHour == Line("10.0.0.2", <<15, "Mar", 2024, 24, 0, 0>>)
\* a blank text between the brackets
LineBlankTime == [ip |-> "10.0.0.1", grammar |-> TRUE, time |-> <<>>, io_error |-> FALSE]
\* no closing bracket after the timestamp
LineNoMatch ==
    [ip |-> "10.0.0.1", grammar |-> FALSE,
     time |-> << <<15, "Mar", 2024, 9, 47, 33>>, <<"+0000">> >>, io_error |-> FALSE]
\* the place in a file where reading it raises
IoError == [ip |-> "", grammar |-> FALSE, time |-> <<>>, io_error |-> TRUE]

MainItems == {LineV, LineAfter, LineNoMatch, LineBadTime, IoError}

WindowItems == {LineV, LineV2, LineEnd, LineBefore, LineAfter, LineFeb, LineBadHour,
                LineBlankTime, LineNoMatch, IoError}

\* the disks that hold at most n items drawn from Items under the four paths:
\* a sequence of items cut into four consecutive pieces, one per path; the paths
\* left without an item are either all missing or all empty files
Cuts(n) == {c \in (0..n) \X (0..n) \X (0..n) : c[1] <= c[2] /\ c[2] <= c[3]}

Piece(s, c, i) ==
    LET at == <<0, c[1], c[2], c[3], Len(s)>>
    IN SubSeq(s, at[i] + 1, at[i + 1])

MkDisk(paths, s, c, present) ==
    [p \in {paths[i] : i \in present} |->
        Piece(s, c, CHOOSE j \in 1..4 : paths[j] = p)]

Disks(paths, Items, n) ==
    UNION {UNION {{MkDisk(paths, s, c, present) :
                      present \in {1..4, {i \in 1..4 : Piece(s, c, i) # <<>>}}} :
                     c \in Cuts(Len(s))} :
              s \in SeqsUpTo(Items, n)}

\* registry lines, as they are read from the file
RegA == <<"a", ":", "u", "=", "=", "x", "\n">>
RegB == <<"b", ":", "v", "=", "=", "x", "=", "=", "y", "\n">>
RegASpaces == <<" ", "a", " ", ":", " ", "w", "=", "=", "\n">>
RegBlank == <<"\n">>
RegNoSep == <<"c", ":", "u", "\n">>
RegNoColon == <<"c", "=", "=", "x", "\n">>
RegTwoColons == <<"c", ":", "u", ":", "v", "=", "=", "x", "\n">>

RegistryLines == {RegA, RegB, RegASpaces, RegBlank, RegNoSep, RegNoColon, RegTwoColons}

\* date texts of a --daterange value
DateTexts == {<<15, 3, 2024>>, <<16, 3, 2024>>, <<31, 2, 2024>>, <<15, 3>>}

Now1 == <<2024, 3, 16, 10, 30, 0>>
Now2 == <<2024, 3, 1, 0, 10, 0>>

InitOf(DomainArgs, DaterangeArgs, Nows, Registries) ==
    /\ args_domain \in DomainArgs
    /\ args_daterange \in DaterangeArgs
    /\ now \in Nows
    /\ registry \in Registries
    /\ pc = "start"
    /\ start_date = None
    /\ end_date = None
    /\ domains = <<>>
    /\ di = 0
    /\ domain = None
    /\ user = None
    /\ disk = EmptyMap
    /\ si = 0
    /\ domain_stats = EmptyMap
    /\ archived_stats = EmptyMap
    /\ all_stats = EmptyMap

(***************************************************************************)
(* The steps of main.                                                      *)
(***************************************************************************)
\* start_date, end_date = determine_date_range(args.daterange)
DetermineDateRange ==
    /\ pc = "start"
    /\ LET r == determine_date_range(args_daterange, now)
       IN IF r.exit
          THEN pc' = "exit" /\ UNCHANGED <<start_date, end_date>>
          ELSE pc' = "load" /\ start_date' = r.start_date /\ end_date' = r.end_date
    /\ UNCHANGED <<args_domain, args_daterange, now, registry, domains, di, domain, user,
                   disk, si, domain_stats, archived_stats, all_stats>>

\* domains = parse_domain_list(USER_DOMAIN_FILE)
ParseDomainList ==
    /\ pc = "load"
    /\ LET r == parse_domain_list(registry)
       IN IF r.raised
          THEN pc' = "crash" /\ UNCHANGED domains
          ELSE pc' = "domains" /\ domains' = r.domains
    /\ UNCHANGED <<args_domain, args_daterange, now, registry, start_date, end_date, di,
                   domain, user, disk, si, domain_stats, archived_stats, all_stats>>

\* the loop of main without its filter
filtered_out_never(requested, d) == FALSE

\* if args.domain and args.domain != domain: continue
filtered_out(requested, d) == requested # None /\ requested # d

\* the loop of main takes an item that args.domain filters out
SkipDomain ==
    /\ pc = "domains"
    /\ di < Len(domains)
    /\ filtered_out(args_domain, domains[di + 1][1])
    /\ di' = di + 1
    /\ UNCHANGED <<args_domain, args_daterange, now, registry, pc, start_date, end_date,
                   domains, domain, user, disk, si, domain_stats, archived_stats, all_stats>>

\* the loop of main takes an item and calls process_logs; the files under the
\* item's paths are what the environment holds there
EnterDomain(Items, n) ==
    /\ pc = "domains"
    /\ di < Len(domains)
    /\ ~filtered_out(args_domain, domains[di + 1][1])
    /\ di' = di + 1
    /\ domain' = domains[di + 1][1]
    /\ user' = domains[di + 1][2]
    /\ disk' \in Disks(log_paths(domain', user') \o archive_paths(domain', user', now),
                       Items, n)
    /\ domain_stats' = EmptyMap
    /\ si' = 0
    /\ pc' = "logs"
    /\ UNCHANGED <<args_domain, args_daterange, now, registry, start_date, end_date,
                   domains, archived_stats, all_stats>>

\* one iteration of the loop of process_logs; after the last one process_logs
\* returns and process_archived_logs starts
ProcessLogs ==
    /\ pc = "logs"
    /\ LET log_path == log_paths(domain, user)[si + 1]
           r == process_log_file(disk[log_path], domain_stats, start_date, end_date)
       IN IF ~isfile(disk, log_path)
          THEN /\ UNCHANGED domain_stats
               /\ IF si + 1 < 2
                  THEN pc' = "logs" /\ si' = si + 1 /\ UNCHANGED archived_stats
                  ELSE pc' = "archives" /\ si' = 0 /\ archived_stats' = EmptyMap
          ELSE IF r.raised
               THEN pc' = "crash" /\ UNCHANGED <<si, domain_stats, archived_stats>>
               ELSE /\ domain_stats' = r.stats
                    /\ IF si + 1 < 2
                       THEN pc' = "logs" /\ si' = si + 1 /\ UNCHANGED archived_stats
                       ELSE pc' = "archives" /\ si' = 0 /\ archived_stats' = EmptyMap
    /\ UNCHANGED <<args_domain, args_daterange, now, registry, start_date, end_date,
                   domains, di, domain, user, disk, all_stats>>

\* one iteration of the loop of process_archived_logs; after the last one it
\* returns
ProcessArchivedLogs ==
    /\ pc = "archives"
    /\ LET archive_path == archive_paths(domain, user, now)[si + 1]
           r == process_archive_file(disk[archive_path], archived_stats, start_date, end_date)
       IN IF ~isfile(disk, archive_path)
          THEN /\ UNCHANGED archived_stats
               /\ IF si + 1 < 2 THEN pc' = "archives" /\ si' = si + 1
                                ELSE pc' = "merge" /\ si' = 0
          ELSE IF r.raised
               THEN pc' = "crash" /\ UNCHANGED <<si, archived_stats>>
               ELSE /\ archived_stats' = r.stats
                    /\ IF si + 1 < 2 THEN pc' = "archives" /\ si' = si + 1
                                     ELSE pc' = "merge" /\ si' = 0
    /\ UNCHANGED <<args_domain, args_daterange, now, registry, start_date, end_date,
                   domains, di, domain, user, disk, domain_stats, all_stats>>

\* the two merge loops of main; the loop then goes on to other directories
MergeDomain ==
    /\ pc = "merge"
    /\ domain_stats' = merge_archived(domain_stats, archived_stats)
    /\ all_stats' = merge_all(all_stats, domain, domain_stats')
    /\ disk' = EmptyMap
    /\ pc' = "domains"
    /\ UNCHANGED <<args_domain, args_daterange, now, registry, start_date, end_date,
                   domains, di, domain, user, si, archived_stats>>

\* the loop of main ends and the report is printed
Report ==
    /\ pc = "domains"
    /\ di = Len(domains)
    /\ pc' = "report"
    /\ UNCHANGED <<args_domain, args_daterange, now, registry, start_date, end_date,
                   domains, di, domain, user, disk, si, domain_stats, archived_stats,
                   all_stats>>

NextOf(Items, n) ==
    \/ DetermineDateRange
    \/ ParseDomainList
    \/ SkipDomain
    \/ EnterDomain(Items, n)
    \/ ProcessLogs
    \/ ProcessArchivedLogs
    \/ MergeDomain
    \/ Report

\* a run over a registry of two domains
Init == InitOf({None, <<"a">>, <<"b">>, <<"z">>}, {None}, {Now1}, {<<RegA, RegB>>})
Next == NextOf(MainItems, MaxLines)
Spec == Init /\ [][Next]_vars

\* runs over one domain whose sources hold a line of any kind, under every window
InitWindow ==
    InitOf({None}, {None} \cup SeqsUpTo(DateTexts, MaxDateParts), {Now1, Now2}, {<<RegA>>})
NextWindow ==
    \/ DetermineDateRange
    \/ ParseDomainList
    \/ EnterDomain(WindowItems, MaxWindowLines)
    \/ ProcessLogs
    \/ ProcessArchivedLogs
    \/ MergeDomain
    \/ Report
SpecWindow == InitWindow /\ [][NextWindow]_vars

\* the start of a run, up to the loading of the registry, over every registry
InitRegistry ==
    InitOf({None, <<"a">>, <<"z">>}, {None}, {Now1}, SeqsUpTo(RegistryLines, MaxRegistryLines))
NextRegistry == DetermineDateRange \/ ParseDomainList
SpecRegistry == InitRegistry /\ [][NextRegistry]_vars

(***************************************************************************)
(* What the log files hold, read off their text.                           *)
(***************************************************************************)
\* days since a fixed origin, up to a constant, of a date given by its fields
Ordinal(y, m, d) == (y * 12 + m) * 31 + d

\* a line that has the grammar, a timestamp that parses, and a date inside the
\* window [s, e], compared on calendar dates
Countable(item, s, e) ==
    /\ ~item.io_error
    /\ item.grammar
    /\ item.time # <<>>
    /\ StrptimeLogOk(item.time[1])
    /\ LET t == item.time[1]
           day == Ordinal(t[3], MonthNumber(t[2]), t[1])
       IN Ordinal(s[1], s[2], s[3]) <= day /\ day <= Ordinal(e[1], e[2], e[3])

\* the <<hour, ip>> key of a line whose timestamp parses
KeyOf(item) ==
    LET t == item.time[1]
    IN << <<t[3], MonthNumber(t[2]), t[1], t[4]>>, item.ip >>

\* an item at which the reading of its file stops
Stops(item) ==
    \/ item.io_error
    \/ item.grammar /\ (item.time = <<>> \/ ~StrptimeLogOk(item.time[1]))

\* the number of items of a file in front of the first one that stops its reading
PrefixLen(items) ==
    IF \E i \in 1..Len(items) : Stops(items[i])
    THEN (CHOOSE i \in 1..Len(items) :
              Stops(items[i]) /\ \A j \in 1..(i - 1) : ~Stops(items[j])) - 1
    ELSE Len(items)

\* the countable lines with key k among the first n items
Hits(items, n, k, s, e) ==
    Cardinality({i \in 1..n : Countable(items[i], s, e) /\ KeyOf(items[i]) = k})

\* the same over all the files of a disk: every line, or the lines in front of
\* the place where the reading of their file stops
AllHits(fs, k, s, e) ==
    Cardinality(UNION {{<<p, i>> : i \in {j \in 1..Len(fs[p]) :
                           Countable(fs[p][j], s, e) /\ KeyOf(fs[p][j]) = k}} :
                        p \in DOMAIN fs})

ReadHits(fs, k, s, e) ==
    Cardinality(UNION {{<<p, i>> : i \in {j \in 1..PrefixLen(fs[p]) :
                           Countable(fs[p][j], s, e) /\ KeyOf(fs[p][j]) = k}} :
                        p \in DOMAIN fs})

\* the keys of the lines of a disk whose timestamp parses
DiskKeys(fs) ==
    UNION {{KeyOf(fs[p][i]) : i \in {j \in 1..Len(fs[p]) :
                /\ ~fs[p][j].io_error
                /\ fs[p][j].time # <<>>
                /\ StrptimeLogOk(fs[p][j].time[1])}} :
             p \in DOMAIN fs}

\* the table all_stats holds for a domain, empty when it holds none
TableOf(all, d) == IF d \in DOMAIN all THEN all[d] ELSE EmptyMap

\* the step that handles one candidate source, and the source it handles
SourceStep == pc \in {"logs", "archives"} /\ (pc' # pc \/ si' # si)

CurrentPath ==
    IF pc = "logs" THEN log_paths(domain, user)[si + 1]
    ELSE archive_paths(domain, user, now)[si + 1]

\* the file the step reads, empty when the path holds none
CurrentItems == IF isfile(disk, CurrentPath) THEN disk[CurrentPath] ELSE <<>>

\* the table the step works on, before and after it
TableBefore == IF pc = "logs" THEN domain_stats ELSE archived_stats
TableAfter == IF pc = "logs" THEN domain_stats' ELSE archived_stats'

\* the step that merges the tables of the current domain into all_stats
MergeStep == pc = "merge" /\ pc' = "domains"

\* the table one iteration of the loop of main leaves in all_stats for a domain
\* that has none yet, the files under its paths being fs
RunTable(fs, d, u, t, s, e) ==
    LET lp == log_paths(d, u)
        ap == archive_paths(d, u, t)
        l1 == IF isfile(fs, lp[1])
              THEN process_log_file(fs[lp[1]], EmptyMap, s, e).stats ELSE EmptyMap
        l2 == IF isfile(fs, lp[2])
              THEN process_log_file(fs[lp[2]], l1, s, e).stats ELSE l1
        a1 == IF isfile(fs, ap[1])
              THEN process_archive_file(fs[ap[1]], EmptyMap, s, e).stats ELSE EmptyMap
        a2 == IF isfile(fs, ap[2])
              THEN process_archive_file(fs[ap[2]], a1, s, e).stats ELSE a1
    IN TableOf(merge_all(EmptyMap, d, merge_archived(l2, a2)), d)

\* the permutations of the four candidate sources
Perms == {q \in [1..4 -> 1..4] : \A i, j \in 1..4 : q[i] = q[j] => i = j}

\* the disk that holds under path q[i] what fs holds under path i
Permuted(fs, paths, q) ==
    [p \in {paths[q[i]] : i \in {j \in 1..4 : paths[j] \in DOMAIN fs}} |->
        fs[paths[CHOOSE i \in 1..4 : paths[q[i]] = p]]]

KeyV == << <<2024, 3, 15, 9>>, "10.0.0.1" >>
KeyEnd == << <<2024, 3, 16, 23>>, "10.0.0.2" >>

(***************************************************************************)
(* The claims.                                                             *)
(***************************************************************************)
\* C1 (as stated): when a domain has been merged, the count all_stats holds for
\* it at every (hour, ip) is the number of lines, over all its sources together,
\* that match the grammar, have a timestamp that parses to that hour, carry that
\* ip and are dated inside the window. Stated for sources that can be read to
\* their end.
C1_CountIsNumberOfValidLines ==
    [][(MergeStep /\ \A p \in DOMAIN disk : \A i \in 1..Len(disk[p]) : ~disk[p][i].io_error)
         => \A k \in DiskKeys(disk) \cup Keys(TableOf(all_stats', domain)) :
                Count(TableOf(all_stats', domain), k[1], k[2])
                    = AllHits(disk, k, start_date, end_date)]_vars

C3_BadTimestampSkipsOneLine ==
    [][(SourceStep /\ \A i \in 1..Len(CurrentItems) : ~CurrentItems[i].io_error)
         => \A k \in DiskKeys(disk) \cup Keys(TableAfter) :
                Count(TableAfter, k[1], k[2])
                    = Count(TableBefore, k[1], k[2])
                      + Hits(CurrentItems, Len(CurrentItems), k, start_date, end_date)]_vars

\* C4: whatever a candidate source is (missing, or failing part-way), the step
\* that handles it goes on to the next source and never leaves the run; the
\* table merged for the domain holds, at every key, what each source contributes
\* on its own; no step changes the table of another domain; and a domain whose
\* sources are all missing gets no entry.
C4_SourceIsolation ==
    [][/\ SourceStep
           => /\ pc' # "crash"
              /\ \/ pc' = pc /\ si' = si + 1
                 \/ si = 1 /\ si' = 0 /\ pc' = (IF pc = "logs" THEN "archives" ELSE "merge")
              /\ all_stats' = all_stats
              /\ pc = "archives" => domain_stats' = domain_stats
       /\ MergeStep
           => /\ \A k \in DiskKeys(disk) \cup Keys(TableOf(all_stats', domain)) :
                     Count(TableOf(all_stats', domain), k[1], k[2])
                         = ReadHits(disk, k, start_date, end_date)
              /\ DOMAIN disk = {} => domain \notin DOMAIN all_stats'
       /\ \A d \in DOMAIN all_stats :
              (d # domain \/ ~MergeStep) => d \in DOMAIN all_stats' /\ all_stats'[d] = all_stats[d]
      ]_vars

\* process_logs is over: the first live log failed at its first item and the
\* second one was read and counted
C4_Witness ==
    /\ pc = "archives" /\ si = 0
    /\ isfile(disk, log_paths(domain, user)[1])
    /\ disk[log_paths(domain, user)[1]] = <<IoError>>
    /\ isfile(disk, log_paths(domain, user)[2])
    /\ disk[log_paths(domain, user)[2]] = <<LineV>>
    /\ Count(domain_stats, KeyV[1], KeyV[2]) = 1

\* C5 (as stated): the loading of the registry never fails on a malformed line,
\* and every well-formed line of the file is loaded.
C5_MalformedLineIsSkipped ==
    pc \notin {"start", "load"}
        => /\ pc # "crash"
           /\ \A i \in 1..Len(registry) :
                  /\ registry[i] \in {RegA, RegASpaces} => <<"a">> \in DictKeys(domains)
                  /\ registry[i] = RegB => <<"b">> \in DictKeys(domains)

\* C6: when a domain is requested all_stats holds no other domain; when the
\* requested name is no key of the registry, no domain is entered (no source is
\* read), the run does not fail and all_stats stays empty.
C6_SingleDomain ==
    args_domain # None
        => /\ DOMAIN all_stats \subseteq {args_domain}
           /\ (pc \notin {"start", "load"} /\ args_domain \notin DictKeys(domains))
                  => /\ pc \in {"domains", "report"}
                     /\ domain = None
                     /\ disk = EmptyMap
                     /\ all_stats = EmptyMap

\* the run for a name that is not in the registry has ended
C6_Witness ==
    /\ pc = "report"
    /\ args_domain = <<"z">>
    /\ Len(domains) = 2
    /\ all_stats = EmptyMap

\* a table without an empty inner mapping and without a count below 1
TableOk(t) ==
    \A h \in DOMAIN t : DOMAIN t[h] # {} /\ \A ip \in DOMAIN t[h] : t[h][ip] >= 1

\* C7: in every state every entry present in domain_stats, archived_stats and
\* all_stats has a count of at least 1, and no hour or domain maps to an empty
\* mapping.
C7_CountsArePositive ==
    /\ TableOk(domain_stats)
    /\ TableOk(archived_stats)
    /\ \A d \in DOMAIN all_stats : DOMAIN all_stats[d] # {} /\ TableOk(all_stats[d])

\* a domain was processed, none of its sources held a line inside the window,
\* and all_stats has no entry for it
C7_Witness ==
    /\ pc = "domains"
    /\ domain = <<"b">>
    /\ <<"a">> \in DOMAIN all_stats
    /\ <<"b">> \notin DOMAIN all_stats

\* C8: the table merged for a domain is the one the run would have produced with
\* the domain's four sources in any other order, whether the domain is the
\* first or a later one of the run.
C8_OrderIndependent ==
    [][MergeStep
         => \A fs \in {Permuted(disk,
                                log_paths(domain, user) \o archive_paths(domain, user, now),
                                q) : q \in Perms} :
                TableOf(all_stats', domain)
                    = RunTable(fs, domain, user, now, start_date, end_date)]_vars

\* the second domain of a run was merged from a live log and an archive that
\* both hold lines of the same hour and ip
C8_Witness ==
    /\ pc = "domains"
    /\ domain = <<"b">>
    /\ <<"a">> \in DOMAIN all_stats
    /\ Count(archived_stats, KeyV[1], KeyV[2]) = 1
    /\ Count(TableOf(all_stats, domain), KeyV[1], KeyV[2]) = 2

\* C9 (as stated): the window a run filters with has start <= end.
C9_StartNotAfterEnd ==
    pc \notin {"start", "exit"} => DateTimeLeq(start_date, end_date)

\* C10: the step that reads a source up to an error leaves in the table the
\* increments of the lines in front of the error, and the merge adds the tables
\* of the domain into all_stats as they are.
C10_PartialCountIsKept ==
    [][/\ (SourceStep /\ PrefixLen(CurrentItems) < Len(CurrentItems))
           => \A k \in DiskKeys(disk) \cup Keys(TableBefore) \cup Keys(TableAfter) :
                  Count(TableAfter, k[1], k[2])
                      = Count(TableBefore, k[1], k[2])
                        + Hits(CurrentItems, PrefixLen(CurrentItems), k, start_date, end_date)
       /\ MergeStep
           => \A k \in Keys(domain_stats) \cup Keys(archived_stats)
                        \cup Keys(TableOf(all_stats', domain)) :
                  Count(TableOf(all_stats', domain), k[1], k[2])
                      = Count(domain_stats, k[1], k[2]) + Count(archived_stats, k[1], k[2])
      ]_vars

\* the second archive was read up to a line whose timestamp does not parse, and
\* the line in front of it is in archived_stats when the merge starts
C10_Witness ==
    /\ pc = "merge"
    /\ isfile(disk, archive_paths(domain, user, now)[2])
    /\ disk[archive_paths(domain, user, now)[2]] = <<LineV, LineBadTime>>
    /\ Count(archived_stats, KeyV[1], KeyV[2]) = 1

====
